---- MODULE Spec2Model ----
(***************************************************************************)
(* paperoni: the content-addressed acquisition and merge engine of         *)
(* paperoni/db/database.py (class Database), as a state machine.           *)
(*                                                                         *)
(* The store is the SQLite file: one set of rows per table.  A Database    *)
(* object holds an acquisition cache and a snapshot of the canonical_id    *)
(* table taken when it was constructed.  Every operation (import_all,      *)
(* replay, a merge inside a `with db:` block, the construction of a        *)
(* Database object) is one action and runs to completion.                  *)
(***************************************************************************)
EXTENDS Integers, Sequences, FiniteSets, TLC

None == "None"

\* the NULL of an identifier column, and the None of an identifier value
NoId == [null |-> TRUE]

(***************************************************************************)
(* Identifiers.  A transient identifier is the hash of the entity's        *)
(* content: the content itself stands for its md5 digest (no collisions).  *)
(* A canonical identifier is a minted value carrying the canonical tag.    *)
(***************************************************************************)
Transient(content) == [tag |-> "transient", of |-> content]

Canonical(n) == [tag |-> "canonical", of |-> [kind |-> "uuid4", n |-> n]]

get_uuid_tag(hid) == hid.tag

is_canonical_uuid(hid) == hid.tag = "canonical"

\* x.hashid(): the transient hash of the content, unless the record carries
\* an identifier assigned by an operator (field cid).
hashid(x) == IF "cid" \in DOMAIN x THEN Canonical(x.cid) ELSE Transient(x)

\* SQL literal forms of an identifier h: X'h' is the blob the ORM stores,
\* 'h' is the text of its hex digits.
Blob(h) == h

Text(h) == [text |-> h]

(***************************************************************************)
(* The entity records submitted for acquisition.                           *)
(***************************************************************************)
L1 == [type |-> "html", link |-> "http://l1"]

I1 == [kind |-> "Institution", name |-> "Mila", category |-> "academia"]

T1 == [kind |-> "Topic", name |-> "ML"]

V1 == [kind |-> "Venue", type |-> "conference", name |-> "V", links |-> <<L1>>]

R1 == [kind |-> "Release", date |-> "2020", date_precision |-> "year",
       volume |-> "1", publisher |-> "pub", venue |-> V1]

A1 == [kind |-> "Author", name |-> "A", links |-> <<>>, aliases |-> <<>>,
       roles |-> <<>>]

A2 == [kind |-> "Author", name |-> "B", links |-> <<L1>>, aliases |-> <<"Bee">>,
       roles |-> <<[institution |-> I1, role |-> "prof",
                    start_date |-> "2010", end_date |-> None]>>]

\* an author whose identifier was assigned by an operator
AC == [kind |-> "Author", name |-> "A.", links |-> <<L1>>, aliases |-> <<>>,
       roles |-> <<>>, cid |-> 102]

\* a second author whose identifier was assigned by an operator
AD == [kind |-> "Author", name |-> "A.D.", links |-> <<>>, aliases |-> <<"Ad">>,
       roles |-> <<>>, cid |-> 103]

\* a record type acquire does not recognize (a bare Link)
Bad == [kind |-> "Link", type |-> "html", link |-> "http://bad"]

P1 == [kind |-> "Paper", title |-> "T", abstract |-> None, citation_count |-> "0",
       authors |-> <<[author |-> A1, affiliations |-> <<>>]>>,
       releases |-> <<R1>>, topics |-> <<>>, links |-> <<>>, scrapers |-> <<>>]

P2 == [kind |-> "Paper", title |-> "T2", abstract |-> "abs", citation_count |-> "3",
       authors |-> <<[author |-> A2, affiliations |-> <<I1>>],
                     [author |-> A1, affiliations |-> <<>>]>>,
       releases |-> <<R1>>, topics |-> <<T1>>, links |-> <<L1>>,
       scrapers |-> <<"orev">>]

\* a paper whose identifier was assigned by an operator
PC == [kind |-> "Paper", title |-> "Tc", abstract |-> None, citation_count |-> "1",
       authors |-> <<[author |-> A1, affiliations |-> <<>>]>>,
       releases |-> <<R1>>, topics |-> <<T1>>, links |-> <<>>, scrapers |-> <<>>,
       cid |-> 101]

\* a paper one of whose authors is of a type acquire does not recognize
PB == [kind |-> "Paper", title |-> "Tb", abstract |-> None, citation_count |-> "0",
       authors |-> <<[author |-> A1, affiliations |-> <<>>],
                     [author |-> Bad, affiliations |-> <<>>]>>,
       releases |-> <<>>, topics |-> <<>>, links |-> <<>>, scrapers |-> <<>>]

(***************************************************************************)
(* The store: the tables of database.sql with their primary keys.          *)
(***************************************************************************)
Tables == {"paper", "author", "institution", "venue", "release", "topic",
           "paper_author", "paper_author_institution", "paper_release",
           "paper_topic", "paper_link", "paper_flag", "paper_scraper",
           "author_link", "author_alias", "author_institution", "venue_link",
           "canonical_id"}

PrimaryKey ==
    [paper |-> {"paper_id"},
     author |-> {"author_id"},
     institution |-> {"institution_id"},
     venue |-> {"venue_id"},
     release |-> {"release_id"},
     topic |-> {"topic_id"},
     paper_author |-> {"paper_id", "author_id"},
     paper_author_institution |-> {"paper_id", "author_id", "institution_id"},
     paper_release |-> {"paper_id", "release_id"},
     paper_topic |-> {"paper_id", "topic_id"},
     paper_link |-> {"paper_id", "type", "link"},
     paper_flag |-> {"paper_id", "flag_name"},
     paper_scraper |-> {"paper_id", "scraper"},
     author_link |-> {"author_id", "type", "link"},
     author_alias |-> {"author_id", "alias"},
     author_institution |-> {"author_id", "institution_id", "role", "start_date"},
     venue_link |-> {"venue_id", "type", "link"},
     canonical_id |-> {"hashid"}]

EmptyStore == [t \in Tables |-> {}]

SameKey(t, r, q) == \A f \in PrimaryKey[t] : r[f] = q[f]

\* session.merge(row): insert, or replace the row with the same primary key
MergeRow(tbl, t, row) == {r \in tbl : ~SameKey(t, r, row)} \cup {row}

\* INSERT ... ON CONFLICT DO NOTHING
InsertOrIgnore(tbl, t, row) ==
    IF \E r \in tbl : SameKey(t, r, row) THEN tbl ELSE tbl \cup {row}

(***************************************************************************)
(* A session: the state threaded through the acquire calls of one `with    *)
(* self:` block.  store is the transaction's view of the tables, pending   *)
(* the CanonicalId objects given to session.add and not flushed yet, nw    *)
(* the number of storage writes issued, failAt the write that the storage  *)
(* backend fails (0: none), err the exception that is propagating, ret the *)
(* value the last call returned, trace the rows written and the acquire    *)
(* calls completed, in order.                                              *)
(***************************************************************************)
Failed(s) == s.err # None

Raise(s, e) == [s EXCEPT !.err = e]

\* Session(self.engine).__enter__() on Database object db
Enter(st, db, failAt) ==
    [store |-> st, cache |-> db.cache, canonical |-> db.canonical,
     pending |-> <<>>, err |-> None, ret |-> NoId, rets |-> <<>>, nw |-> 0,
     failAt |-> failAt, trace |-> <<>>]

\* the INSERTs of the pending CanonicalId objects: a hashid that already has
\* a row violates the primary key
Flush(s) ==
    IF Failed(s) \/ s.pending = <<>> THEN s
    ELSE IF \E i \in 1..Len(s.pending) :
               \E r \in s.store.canonical_id : r.hashid = s.pending[i]
         THEN Raise(s, "IntegrityError")
         ELSE [s EXCEPT !.pending = <<>>,
                        !.store.canonical_id = @ \cup
                            {[hashid |-> s.pending[i], canonical |-> NoId] :
                                i \in 1..Len(s.pending)}]

\* one storage write: it fails when it is the failAt-th of the session
Write(s, t, tbl) ==
    IF s.nw + 1 = s.failAt
    THEN [s EXCEPT !.nw = @ + 1, !.err = "StorageError"]
    ELSE [s EXCEPT !.nw = @ + 1, !.store[t] = tbl]

\* session.merge after its autoflush: insert-or-replace by primary key
merge_flushed(f, t, row) ==
    IF Failed(f) THEN f ELSE Write(f, t, MergeRow(f.store[t], t, row))

\* self.session.merge(row): autoflush, then insert-or-replace by primary key
session_merge(s, t, row) ==
    IF Failed(s) THEN s ELSE merge_flushed(Flush(s), t, row)

\* self.session.execute(insert(t).values(row).on_conflict_do_nothing())
session_insert_ignore(s, t, row) ==
    IF Failed(s) THEN s ELSE Write(s, t, InsertOrIgnore(s.store[t], t, row))

\* self.session.add(CanonicalId(hashid=hid, canonical=None))
session_add(s, hid) ==
    IF Failed(s) THEN s ELSE [s EXCEPT !.pending = Append(@, hid)]

Logged(s, ev) == IF Failed(s) THEN s ELSE [s EXCEPT !.trace = Append(@, ev)]

RowWritten(t, key) == [ev |-> "row", table |-> t, id |-> key]

Acquired(hid) == [ev |-> "acquired", table |-> "-", id |-> hid]

\* `return id` at the end of a case of _acquire
Returning(s, id) == IF Failed(s) THEN s ELSE [s EXCEPT !.ret = id]

RECURSIVE acquire(_, _)
RECURSIVE AcquireBody(_, _)
RECURSIVE PaperAuthors(_, _, _, _)
RECURSIVE Affiliations(_, _, _, _, _)
RECURSIVE PaperReleases(_, _, _, _)
RECURSIVE PaperTopics(_, _, _, _)
RECURSIVE AuthorRoles(_, _, _, _)

\* for link in x.links: session.merge(Link row of table t keyed by field fk)
RECURSIVE Links(_, _, _, _, _, _)
Links(s, t, fk, id, links, i) ==
    IF Failed(s) \/ i > Len(links) THEN s
    ELSE Links(session_merge(s, t, [type |-> links[i].type, link |-> links[i].link]
                                     @@ (fk :> id)),
               t, fk, id, links, i + 1)

\* for scraper in paper.scrapers: session.merge(PaperScraper)
RECURSIVE PaperScrapers(_, _, _, _)
PaperScrapers(s, pid, scrapers, i) ==
    IF Failed(s) \/ i > Len(scrapers) THEN s
    ELSE PaperScrapers(session_merge(s, "paper_scraper",
                           [paper_id |-> pid, scraper |-> scrapers[i]]),
                       pid, scrapers, i + 1)

\* for alias in author.aliases: session.merge(AuthorAlias)
RECURSIVE AuthorAliases(_, _, _, _)
AuthorAliases(s, aid, aliases, i) ==
    IF Failed(s) \/ i > Len(aliases) THEN s
    ELSE AuthorAliases(session_merge(s, "author_alias",
                           [author_id |-> aid, alias |-> aliases[i]]),
                       aid, aliases, i + 1)

\* session.merge(PaperAuthorInstitution), a the session after
\* self.acquire(affiliation)
PaperAuthorInstitution(a, pid, author_id) ==
    session_merge(a, "paper_author_institution",
        [paper_id |-> pid, author_id |-> author_id, institution_id |-> a.ret])

\* for affiliation in paper_author.affiliations
Affiliations(s, pid, author_id, affiliations, j) ==
    IF Failed(s) \/ j > Len(affiliations) THEN s
    ELSE Affiliations(PaperAuthorInstitution(acquire(s, affiliations[j]),
                                             pid, author_id),
                      pid, author_id, affiliations, j + 1)

\* the body of the loop over paper.authors, a the session after
\* self.acquire(author), whose result is author_id
PaperAuthor(a, pid, affiliations, position) ==
    Affiliations(session_merge(a, "paper_author",
                     [paper_id |-> pid, author_id |-> a.ret,
                      author_position |-> position]),
                 pid, a.ret, affiliations, 1)

\* for i, paper_author in enumerate(paper.authors); i is 1-based here and
\* author_position is i - 1
PaperAuthors(s, pid, authors, i) ==
    IF Failed(s) \/ i > Len(authors) THEN s
    ELSE PaperAuthors(PaperAuthor(acquire(s, authors[i].author), pid,
                                  authors[i].affiliations, i - 1),
                      pid, authors, i + 1)

\* the insert into paper_release, a the session after self.acquire(release)
PaperRelease(a, pid) ==
    session_insert_ignore(a, "paper_release", [paper_id |-> pid, release_id |-> a.ret])

\* for release in paper.releases
PaperReleases(s, pid, releases, i) ==
    IF Failed(s) \/ i > Len(releases) THEN s
    ELSE PaperReleases(PaperRelease(acquire(s, releases[i]), pid),
                       pid, releases, i + 1)

\* the insert into paper_topic, a the session after self.acquire(topic)
PaperTopic(a, pid) ==
    session_insert_ignore(a, "paper_topic", [paper_id |-> pid, topic_id |-> a.ret])

\* for topic in paper.topics
PaperTopics(s, pid, topics, i) ==
    IF Failed(s) \/ i > Len(topics) THEN s
    ELSE PaperTopics(PaperTopic(acquire(s, topics[i]), pid), pid, topics, i + 1)

\* session.merge(AuthorInstitution), a the session after
\* self.acquire(role.institution)
AuthorInstitution(a, aid, role) ==
    session_merge(a, "author_institution",
        [author_id |-> aid, institution_id |-> a.ret, role |-> role.role,
         start_date |-> role.start_date, end_date |-> role.end_date])

\* for role in author.roles
AuthorRoles(s, aid, roles, i) ==
    IF Failed(s) \/ i > Len(roles) THEN s
    ELSE AuthorRoles(AuthorInstitution(acquire(s, roles[i].institution),
                                       aid, roles[i]),
                     aid, roles, i + 1)

\* the Paper case of _acquire, pid the paper's identifier
PaperRows(s, paper, pid) ==
    Returning(
        PaperScrapers(
            Links(
                PaperTopics(
                    PaperReleases(
                        PaperAuthors(
                            Logged(session_merge(s, "paper",
                                       [paper_id |-> pid, title |-> paper.title,
                                        abstract |-> paper.abstract,
                                        citation_count |-> paper.citation_count]),
                                   RowWritten("paper", pid)),
                            pid, paper.authors, 1),
                        pid, paper.releases, 1),
                    pid, paper.topics, 1),
                "paper_link", "paper_id", pid, paper.links, 1),
            pid, paper.scrapers, 1),
        pid)

acquire_Paper(s, paper) == PaperRows(s, paper, Blob(hashid(paper)))

\* the Author case of _acquire, aid the author's identifier
AuthorRows(s, author, aid) ==
    Returning(
        AuthorRoles(
            AuthorAliases(
                Links(
                    Logged(session_merge(s, "author",
                               [author_id |-> aid, name |-> author.name]),
                           RowWritten("author", aid)),
                    "author_link", "author_id", aid, author.links, 1),
                aid, author.aliases, 1),
            aid, author.roles, 1),
        aid)

acquire_Author(s, author) == AuthorRows(s, author, Blob(hashid(author)))

\* the Institution case of _acquire, iid the institution's identifier
InstitutionRow(s, institution, iid) ==
    Returning(Logged(session_merge(s, "institution",
                         [institution_id |-> iid, name |-> institution.name,
                          category |-> institution.category]),
                     RowWritten("institution", iid)),
              iid)

acquire_Institution(s, institution) ==
    InstitutionRow(s, institution, Blob(hashid(institution)))

\* the Release case of _acquire after self.acquire(release.venue), v the
\* session that call left and rid the release's identifier
ReleaseRow(v, release, rid) ==
    Returning(Logged(session_merge(v, "release",
                         [release_id |-> rid, date |-> release.date,
                          date_precision |-> release.date_precision,
                          volume |-> release.volume,
                          publisher |-> release.publisher,
                          venue_id |-> v.ret]),
                     RowWritten("release", rid)),
              rid)

acquire_Release(s, release) ==
    ReleaseRow(acquire(s, release.venue), release, Blob(hashid(release)))

\* the Topic case of _acquire, tid the topic's identifier
TopicRow(s, topic, tid) ==
    Returning(Logged(session_merge(s, "topic", [topic_id |-> tid, topic |-> topic.name]),
                     RowWritten("topic", tid)),
              tid)

acquire_Topic(s, topic) == TopicRow(s, topic, Blob(hashid(topic)))

\* the Venue case of _acquire, vid the venue's identifier
VenueRows(s, venue, vid) ==
    Returning(Links(Logged(session_merge(s, "venue",
                               [venue_id |-> vid, type |-> venue.type,
                                name |-> venue.name]),
                           RowWritten("venue", vid)),
                    "venue_link", "venue_id", vid, venue.links, 1),
              vid)

acquire_Venue(s, venue) == VenueRows(s, venue, Blob(hashid(venue)))

\* Database._acquire: the match over the entity's type
AcquireBody(s, x) ==
    CASE x.kind = "Paper" -> acquire_Paper(s, x)
      [] x.kind = "Author" -> acquire_Author(s, x)
      [] x.kind = "Institution" -> acquire_Institution(s, x)
      [] x.kind = "Release" -> acquire_Release(s, x)
      [] x.kind = "Topic" -> acquire_Topic(s, x)
      [] x.kind = "Venue" -> acquire_Venue(s, x)
      [] OTHER -> Raise(s, "TypeError")

\* self.cache[hid] = self._acquire(x), a the session _acquire left
Cached(a, hid) ==
    [a EXCEPT !.cache = [h \in DOMAIN a.cache \cup {hid} |->
                            IF h = hid THEN a.ret ELSE a.cache[h]]]

\* the tail of acquire with session.add run for every identifier, whatever
\* its tag
Absorbed_adding(a, hid, add) ==
    IF Failed(a) THEN a
    ELSE Logged(Returning(session_add(Cached(a, hid), hid), a.ret), Acquired(hid))

\* the tail of acquire once _acquire has run: the cache entry, session.add for
\* a transient identifier when add holds, `return self.cache[hid]`
Absorbed(a, hid, add) ==
    IF Failed(a) THEN a
    ELSE Logged(Returning(IF add THEN session_add(Cached(a, hid), hid)
                          ELSE Cached(a, hid),
                          a.ret),
                Acquired(hid))

\* acquire with the cache and the canonical map guarding only session.add:
\* every entity is absorbed again
acquire_reabsorbing(s, x) ==
    IF Failed(s) THEN s
    ELSE Absorbed(AcquireBody(s, x), hashid(x),
                  /\ get_uuid_tag(hashid(x)) = "transient"
                  /\ hashid(x) \notin DOMAIN s.canonical
                  /\ hashid(x) \notin DOMAIN s.cache)

\* acquire returning the computed identifier for an identifier of the
\* canonical map, whatever value the map holds for it
acquire_hid_unresolved(s, x, hid) ==
    IF hid \in DOMAIN s.canonical
    THEN IF get_uuid_tag(hid) # "transient" THEN Raise(s, "AssertionError")
         ELSE Returning(s, hid)
    ELSE IF get_uuid_tag(hid) = "canonical" \/ hid \notin DOMAIN s.cache
    THEN Absorbed(AcquireBody(s, x), hid, get_uuid_tag(hid) = "transient")
    ELSE Returning(s, s.cache[hid])

\* acquire answering from the cache for canonical identifiers too
acquire_hid_cached(s, x, hid) ==
    IF hid \in DOMAIN s.canonical
    THEN IF get_uuid_tag(hid) # "transient" THEN Raise(s, "AssertionError")
         ELSE Returning(s, IF s.canonical[hid] # NoId THEN s.canonical[hid] ELSE hid)
    ELSE IF hid \notin DOMAIN s.cache
    THEN Absorbed(AcquireBody(s, x), hid, get_uuid_tag(hid) = "transient")
    ELSE Returning(s, s.cache[hid])

\* the body of Database.acquire, hid its `hid = x.hashid()`
acquire_hid(s, x, hid) ==
    IF hid \in DOMAIN s.canonical
    THEN IF get_uuid_tag(hid) # "transient" THEN Raise(s, "AssertionError")
         ELSE Returning(s, IF s.canonical[hid] # NoId THEN s.canonical[hid] ELSE hid)
    ELSE IF get_uuid_tag(hid) = "canonical" \/ hid \notin DOMAIN s.cache
    THEN Absorbed(AcquireBody(s, x), hid, get_uuid_tag(hid) = "transient")
    ELSE Returning(s, s.cache[hid])

\* Database.acquire
acquire(s, x) ==
    IF Failed(s) THEN s ELSE acquire_hid(s, x, hashid(x))

\* the identifier an acquire of the batch returned, kept in order
Kept(a) == IF Failed(a) THEN a ELSE [a EXCEPT !.rets = Append(@, a.ret)]

\* for x in xs: self.acquire(x), keeping the identifiers returned
RECURSIVE AcquireAll(_, _, _)
AcquireAll(s, xs, i) ==
    IF Failed(s) \/ i > Len(xs) THEN s
    ELSE AcquireAll(Kept(acquire(s, xs[i])), xs, i + 1)

\* self.session.commit() in __exit__, f the session after commit's flush and
\* err the exception that ended the block
Commit(st, f, err) ==
    IF Failed(f) THEN [store |-> st, err |-> f.err]
    ELSE IF f.nw + 1 = f.failAt THEN [store |-> st, err |-> "StorageError"]
    ELSE [store |-> f.store, err |-> err]

\* Database.__exit__: self.session.commit(), whatever ended the block.  st is
\* the store before the session.  A flush that failed (a storage failure, a
\* primary key violation) has rolled the transaction back and commit raises;
\* any other exception (TypeError, AssertionError) leaves the transaction
\* active and commit writes what the session has done so far.
Exit(st, s) ==
    IF s.err \in {"StorageError", "IntegrityError"}
    THEN [store |-> st, err |-> s.err]
    ELSE Commit(st, Flush([s EXCEPT !.err = None]), s.err)

(***************************************************************************)
(* The History Log: files of a directory, each a sequence of records.      *)
(* tagged_json and from_dict are inverse on a record of a known type: a    *)
(* record of the log is the entity that was submitted.                     *)
(***************************************************************************)
HistoryFiles == {<<1>>, <<2>>}

RangeBounds == {<<>>, <<2>>}

\* Python's str < str on file names: lexicographic order
RECURSIVE StrLess(_, _)
StrLess(a, b) ==
    IF b = <<>> THEN FALSE
    ELSE IF a = <<>> THEN TRUE
    ELSE IF Head(a) # Head(b) THEN Head(a) < Head(b)
    ELSE StrLess(Tail(a), Tail(b))

\* name[: n]
Prefix(name, n) == SubSeq(name, 1, IF n < Len(name) THEN n ELSE Len(name))

\* sorted(paths)
RECURSIVE Sorted(_)
Sorted(S) ==
    IF S = {} THEN <<>>
    ELSE LET m == CHOOSE x \in S : \A y \in S \ {x} : StrLess(x, y)
         IN <<m>> \o Sorted(S \ {m})

\* Database._accumulate_history_files on a directory holding the files `names`
_accumulate_history_files(names, before, after) ==
    LET paths == Sorted(names)
        p1 == IF before # <<>>
              THEN SelectSeq(paths, LAMBDA x : StrLess(Prefix(x, Len(before)), before))
              ELSE paths
        p2 == IF after # <<>>
              THEN SelectSeq(p1, LAMBDA x : StrLess(after, Prefix(x, Len(after))))
              ELSE p1
    IN p2

(***************************************************************************)
(* Merge.                                                                  *)
(***************************************************************************)
\* the canonical identifiers some row or edge of the store mentions
Mentioned(st) ==
    LET idFields == {"paper_id", "author_id", "institution_id", "venue_id",
                     "release_id", "topic_id", "hashid", "canonical"}
        vals == UNION {UNION {{r[f] : f \in DOMAIN r \cap idFields} : r \in st[t]} :
                          t \in Tables}
    IN vals \cup {v.text : v \in {w \in vals : "text" \in DOMAIN w}}

\* uuid4() tagged canonical: a value no row mentions (fresh values are
\* interchangeable, the least unused one stands for them)
Mint(st) ==
    LET used == {h.of.n : h \in {v \in Mentioned(st) :
                     "tag" \in DOMAIN v /\ v.tag = "canonical"}}
    IN Canonical(CHOOSE n \in 1..(Cardinality(used) + 1) : n \notin used)

\* index of the first canonical identifier of ids, 0 when there is none
RECURSIVE FirstCanonical(_, _)
FirstCanonical(ids, i) ==
    IF i > Len(ids) THEN 0
    ELSE IF is_canonical_uuid(ids[i]) THEN i
    ELSE FirstCanonical(ids, i + 1)

\* Database._filter_ids: the for/else loop.  model is the value the loop
\* variable x holds when the else branch runs: the last element of ids.
_filter_ids(ids, minted) ==
    LET k == FirstCanonical(ids, 1)
        canonical == IF k > 0 THEN ids[k] ELSE minted
    IN [canonical |-> canonical,
        create |-> k = 0,
        model |-> ids[Len(ids)],
        ids |-> SelectSeq(ids, LAMBDA x : x # canonical)]

\* INSERT OR IGNORE INTO t (key, cols) SELECT '{canonical}', cols FROM t
\* WHERE key = X'{model}'
create_canonical(st, t, key, canonical, model) ==
    LET src == {r \in st[t] : r[key] = Blob(model)}
        new == {[r EXCEPT ![key] = Text(canonical)] : r \in src}
    IN [st EXCEPT ![t] = @ \cup {n \in new : ~\E q \in st[t] : SameKey(t, q, n)}]

\* the rows of tbl whose `field` is X'{id}', rewritten to X'{canonical}'
\* unless the rewritten row would collide with a row of the table: OR
\* IGNORE leaves such a row as it is
RewriteRows(tbl, t, field, canonical, id) ==
    LET hit == {r \in tbl : r[field] = Blob(id)}
        moved == {r \in hit :
                     ~\E q \in tbl : SameKey(t, q, [r EXCEPT ![field] = Blob(canonical)])}
    IN (tbl \ moved) \cup {[r EXCEPT ![field] = Blob(canonical)] : r \in moved}

\* UPDATE OR IGNORE t SET field = X'{canonical}' WHERE field = X'{id}' OR ...
\* scan: the order in which the statement visits the identifiers' rows
RECURSIVE UpdateOrIgnore(_, _, _, _, _, _)
UpdateOrIgnore(tbl, t, field, canonical, scan, i) ==
    IF i > Len(scan) THEN tbl
    ELSE UpdateOrIgnore(RewriteRows(tbl, t, field, canonical, scan[i]),
                        t, field, canonical, scan, i + 1)

\* for table, field in tables.items(): the UPDATE OR IGNORE of each table
RECURSIVE UpdateTables(_, _, _, _, _, _)
UpdateTables(st, tables, field, canonical, scan, i) ==
    IF i > Len(tables) THEN st
    ELSE UpdateTables([st EXCEPT ![tables[i]] =
                          UpdateOrIgnore(@, tables[i], field, canonical, scan, 1)],
                      tables, field, canonical, scan, i + 1)

\* DELETE FROM t WHERE key = X'{id}' OR ...
DeleteRows(st, t, key, ids) ==
    [st EXCEPT ![t] = {r \in @ : \A i \in 1..Len(ids) : r[key] # Blob(ids[i])}]

PaperTables == <<"paper_author", "paper_link", "paper_flag",
                 "paper_author_institution", "paper_release", "paper_topic",
                 "paper_scraper">>

AuthorTables == <<"paper_author", "author_link", "author_alias",
                  "author_institution">>

\* Database.merge_papers / Database.merge_authors: the store after the
\* statements of the merge, and the target
merge_entities(st, t, key, tables, ids, scan) ==
    LET f == _filter_ids(ids, Mint(st))
        s1 == IF f.create THEN create_canonical(st, t, key, f.canonical, f.model)
              ELSE st
        s2 == UpdateTables(s1, tables, key, f.canonical,
                           SelectSeq(scan, LAMBDA x : x # f.canonical), 1)
    IN [store |-> DeleteRows(s2, t, key, f.ids), canonical |-> f.canonical]

merge_papers(st, paper_ids, scan) ==
    merge_entities(st, "paper", "paper_id", PaperTables, paper_ids, scan)

merge_authors(st, author_ids, scan) ==
    merge_entities(st, "author", "author_id", AuthorTables, author_ids, scan)

(***************************************************************************)
(* Replay.                                                                 *)
(***************************************************************************)
\* x.tagged_json(): the record with its type discriminator
tagged_json(x) == [type |-> x.kind, json |-> x]

\* from_dict(json.loads(l)): the typed entity of a record
from_dict(l) == l.json

RECURSIVE Lines(_, _)
Lines(xs, i) == IF i > Len(xs) THEN <<>> ELSE <<tagged_json(xs[i])>> \o Lines(xs, i + 1)

RECURSIVE Records(_, _)
Records(ls, i) == IF i > Len(ls) THEN <<>> ELSE <<from_dict(ls[i])>> \o Records(ls, i + 1)

\* the loop of Database.replay over history_files: one `with self:` block
\* per file; an exception ends the replay after that block's __exit__.  The
\* storage fails the failAt-th write of a block (0: none); rets are the
\* identifiers of the records acquired in the block that ended the replay.
RECURSIVE ReplayFiles(_, _, _, _, _, _)
ReplayFiles(st, db, lg, files, i, failAt) ==
    IF i > Len(files)
    THEN [store |-> st, cache |-> db.cache, err |-> None, rets |-> <<>>]
    ELSE LET s1 == AcquireAll(Enter(st, db, failAt), Records(lg[files[i]], 1), 1)
             c == Exit(st, s1)
         IN IF c.err # None
            THEN [store |-> c.store, cache |-> s1.cache, err |-> c.err,
                  rets |-> s1.rets]
            ELSE ReplayFiles(c.store, [db EXCEPT !.cache = s1.cache], lg, files,
                             i + 1, failAt)

\* Database.replay(history, before, after) on the directory of log lg
replay(st, db, lg, before, after, failAt) ==
    ReplayFiles(st, db, lg,
                _accumulate_history_files({f \in DOMAIN lg : lg[f] # <<>>},
                                          before, after), 1, failAt)

(***************************************************************************)
(* The state machine.                                                      *)
(***************************************************************************)
VARIABLES
    store,   \* the SQLite file: table name -> set of rows
    log,     \* the History Log: file name -> sequence of lines
    dbs,     \* the Database objects: cache, canonical snapshot
    last,    \* the operation that ran last, its arguments and its outcome
    prev,    \* the operation that ran before it
    nops,    \* number of operations run
    folded,  \* transient id -> merge target, for the rows a merge deleted
    kinds    \* the names of the operations run so far

vars == <<store, log, dbs, last, prev, nops, folded, kinds>>

MaxOps == 3

MaxFault == 2

DbIds == {"d1", "d2"}

Batches == {<<P1>>, <<P2, PC>>, <<A1, AC, AD>>, <<T1, Bad>>, <<PB>>}

PaperMergeSets == {<<hashid(P1), hashid(P2)>>,
                   <<hashid(P1), hashid(PC), hashid(P2)>>}

AuthorMergeSets == {<<hashid(A1), hashid(A2)>>,
                    <<hashid(A2), hashid(AC)>>,
                    <<hashid(AC), hashid(AD), hashid(A1)>>}

EmptyMap == [h \in {} |-> NoId]

NoOp == [op |-> "none", db |-> "none", arg |-> <<>>, err |-> None, rets |-> <<>>,
         target |-> NoId, pre |-> EmptyStore,
         predb |-> [open |-> FALSE, cache |-> EmptyMap, canonical |-> EmptyMap,
                    born |-> 0],
         trace |-> <<>>]

Summary(l) == [op |-> l.op, db |-> l.db, arg |-> l.arg, err |-> l.err, rets |-> l.rets]

\* Database.__init__ on the store st: the tables exist, the cache is empty
\* and the canonical map is read from canonical_id
Database(st, n) ==
    [open |-> TRUE, cache |-> EmptyMap,
     canonical |-> [h \in {r.hashid : r \in st.canonical_id} |->
                       (CHOOSE r \in st.canonical_id : r.hashid = h).canonical],
     born |-> n]

Init ==
    /\ store = EmptyStore
    /\ log = [f \in HistoryFiles |-> <<>>]
    /\ dbs = [d \in DbIds |-> IF d = "d1" THEN Database(EmptyStore, 0)
                              ELSE [Database(EmptyStore, 0) EXCEPT !.open = FALSE]]
    /\ last = NoOp
    /\ prev = Summary(NoOp)
    /\ nops = 0
    /\ folded = EmptyMap
    /\ kinds = {}

Ran(l) ==
    /\ last' = l
    /\ prev' = Summary(last)
    /\ nops' = nops + 1
    /\ kinds' = kinds \cup {l.op}

\* Database(filename): a Database object is constructed on the store
Open(d) ==
    /\ nops < MaxOps
    /\ dbs' = [dbs EXCEPT ![d] = Database(store, nops)]
    /\ UNCHANGED <<store, log, last, prev, nops, folded, kinds>>

\* an import_all that writes the History Log whether or not the transaction
\* committed
import_all_logging_first(d, xs, history_file, failAt) ==
    /\ nops < MaxOps
    /\ dbs[d].open
    /\ \A f \in HistoryFiles : log[f] # <<>> => ~StrLess(history_file, f)
    /\ xs # <<>>
    /\ LET s1 == AcquireAll(Enter(store, dbs[d], failAt), xs, 1)
           c == Exit(store, s1)
       IN /\ store' = c.store
          /\ dbs' = [dbs EXCEPT ![d].cache = s1.cache]
          /\ log' = [log EXCEPT ![history_file] = @ \o Lines(xs, 1)]
          /\ UNCHANGED folded
          /\ Ran([NoOp EXCEPT !.op = "import_all", !.db = d, !.arg = xs,
                              !.err = c.err, !.rets = s1.rets,
                              !.pre = store, !.predb = dbs[d],
                              !.trace = s1.trace])

\* db.import_all(xs, history_file), the storage failing its failAt-th write
import_all(d, xs, history_file, failAt) ==
    /\ nops < MaxOps
    /\ dbs[d].open
    /\ \A f \in HistoryFiles : log[f] # <<>> => ~StrLess(history_file, f)
    /\ IF xs = <<>>
       THEN /\ UNCHANGED <<store, log, dbs, folded>>
            /\ Ran([NoOp EXCEPT !.op = "import_all", !.db = d, !.pre = store,
                                !.predb = dbs[d]])
       ELSE LET s1 == AcquireAll(Enter(store, dbs[d], failAt), xs, 1)
                c == Exit(store, s1)
            IN /\ store' = c.store
               /\ dbs' = [dbs EXCEPT ![d].cache = s1.cache]
               /\ log' = IF c.err = None
                         THEN [log EXCEPT ![history_file] = @ \o Lines(xs, 1)]
                         ELSE log
               /\ UNCHANGED folded
               /\ Ran([NoOp EXCEPT !.op = "import_all", !.db = d, !.arg = xs,
                                   !.err = c.err, !.rets = s1.rets,
                                   !.pre = store, !.predb = dbs[d],
                                   !.trace = s1.trace])

\* history_file defaults to config.history_file
ConfigHistoryFile == <<1>>

ImportAll == \E d \in DbIds, xs \in Batches : import_all(d, xs, ConfigHistoryFile, 0)

ImportAllTo ==
    \E d \in DbIds, xs \in Batches, f \in HistoryFiles : import_all(d, xs, f, 0)

ImportAllFault ==
    \E d \in DbIds, xs \in Batches, k \in 1..MaxFault :
        import_all(d, xs, ConfigHistoryFile, k)

\* db.replay(history, before, after)
Replay ==
    \E d \in DbIds, before \in RangeBounds, after \in RangeBounds :
        /\ nops < MaxOps
        /\ dbs[d].open
        /\ LET r == replay(store, dbs[d], log, before, after, 0)
           IN /\ store' = r.store
              /\ dbs' = [dbs EXCEPT ![d].cache = r.cache]
              /\ UNCHANGED <<log, folded>>
              /\ Ran([NoOp EXCEPT !.op = "replay", !.db = d,
                                  !.arg = <<before, after>>, !.err = r.err,
                                  !.pre = store, !.predb = dbs[d]])

Perms(S) == {p \in [1..Cardinality(S) -> S] : \A i, j \in 1..Cardinality(S) :
                                                   p[i] = p[j] => i = j}

Range(q) == {q[i] : i \in 1..Len(q)}

\* a merge that also points the cache entries of the folded identifiers at
\* the merge target
Merge_caching(d, op, t, key, ids, scan) ==
    /\ nops < MaxOps
    /\ dbs[d].open
    /\ Range(ids) \subseteq Mentioned(store)
    /\ LET m == IF op = "merge_papers" THEN merge_papers(store, ids, scan)
                ELSE merge_authors(store, ids, scan)
           gone == {h \in Range(ids) :
                       /\ h # m.canonical
                       /\ get_uuid_tag(h) = "transient"
                       /\ \E r \in store[t] : r[key] = Blob(h)
                       /\ ~\E r \in m.store[t] : r[key] = Blob(h)}
       IN /\ store' = m.store
          /\ folded' = [h \in DOMAIN folded \cup gone |->
                           IF h \in gone THEN m.canonical ELSE folded[h]]
          /\ dbs' = [dbs EXCEPT ![d].cache =
                        [h \in DOMAIN @ \cup gone |->
                            IF h \in gone THEN m.canonical ELSE @[h]]]
          /\ UNCHANGED log
          /\ Ran([NoOp EXCEPT !.op = op, !.db = d, !.arg = ids,
                              !.target = m.canonical, !.pre = store,
                              !.predb = dbs[d]])

\* with db: db.merge_papers(ids) / db.merge_authors(ids)
Merge(d, op, t, key, ids, scan) ==
    /\ nops < MaxOps
    /\ dbs[d].open
    /\ Range(ids) \subseteq Mentioned(store)
    /\ LET m == IF op = "merge_papers" THEN merge_papers(store, ids, scan)
                ELSE merge_authors(store, ids, scan)
           gone == {h \in Range(ids) :
                       /\ h # m.canonical
                       /\ get_uuid_tag(h) = "transient"
                       /\ \E r \in store[t] : r[key] = Blob(h)
                       /\ ~\E r \in m.store[t] : r[key] = Blob(h)}
       IN /\ store' = m.store
          /\ folded' = [h \in DOMAIN folded \cup gone |->
                           IF h \in gone THEN m.canonical ELSE folded[h]]
          /\ UNCHANGED <<log, dbs>>
          /\ Ran([NoOp EXCEPT !.op = op, !.db = d, !.arg = ids,
                              !.target = m.canonical, !.pre = store,
                              !.predb = dbs[d]])

MergePapers ==
    \E d \in DbIds, ids \in PaperMergeSets :
        \E scan \in Perms(Range(ids)) :
            Merge(d, "merge_papers", "paper", "paper_id", ids, scan)

MergeAuthors ==
    \E d \in DbIds, ids \in AuthorMergeSets :
        \E scan \in Perms(Range(ids)) :
            Merge(d, "merge_authors", "author", "author_id", ids, scan)

\* d1 is the object constructed on the empty store; d2 is constructed later,
\* any number of times
OpenDb == Open("d2")

Next == OpenDb \/ ImportAll \/ MergePapers \/ MergeAuthors

Spec == Init /\ [][Next]_vars

NextReplay == OpenDb \/ ImportAllTo \/ Replay

SpecReplay == Init /\ [][NextReplay]_vars

NextFault == OpenDb \/ ImportAll \/ ImportAllFault

SpecFault == Init /\ [][NextFault]_vars

\* later versions of the entities that carry a canonical identifier
AC2 == [AC EXCEPT !.name = "A. C.", !.aliases = <<"Ace">>]

PC2 == [PC EXCEPT !.title = "Tc2", !.citation_count = "2"]

VersionBatches == {<<AC>>, <<AC2>>, <<A1, AC, AC2>>, <<P2, PC>>, <<PC2, PC>>}

ImportAllVersions ==
    \E d \in DbIds, xs \in VersionBatches : import_all(d, xs, ConfigHistoryFile, 0)

NextVersions == OpenDb \/ ImportAllVersions

SpecVersions == Init /\ [][NextVersions]_vars

\* a paper that lists author A1 at two indices
PD == [P1 EXCEPT !.title = "Td",
                 !.authors = <<P1.authors[1], P2.authors[1], P1.authors[1]>>]

PositionBatches == {<<P1>>, <<P2, PC>>, <<PD>>}

ImportAllPositions ==
    \E d \in DbIds, xs \in PositionBatches : import_all(d, xs, ConfigHistoryFile, 0)

NextPositions == OpenDb \/ ImportAllPositions

SpecPositions == Init /\ [][NextPositions]_vars

\* the store files a Database is constructed on when canonical_id already
\* holds an entry with a value: the identifier of A1 superseded by that of AC
MapStores ==
    {[EmptyStore EXCEPT
         !.canonical_id = {[hashid |-> hashid(A1), canonical |-> hashid(AC)]},
         !.author = rows]
        : rows \in {{}, {[author_id |-> Blob(hashid(AC)), name |-> AC.name]}}}

InitMap ==
    /\ store \in MapStores
    /\ log = [f \in HistoryFiles |-> <<>>]
    /\ dbs = [d \in DbIds |-> IF d = "d1" THEN Database(store, 0)
                              ELSE [Database(store, 0) EXCEPT !.open = FALSE]]
    /\ last = NoOp
    /\ prev = Summary(NoOp)
    /\ nops = 0
    /\ folded = EmptyMap
    /\ kinds = {}

NextMap == OpenDb \/ ImportAll

SpecMap == InitMap /\ [][NextMap]_vars

(***************************************************************************)
(* Definitions the properties share.                                       *)
(***************************************************************************)
EntityTables == {"paper", "author", "institution", "venue", "release", "topic"}

KeyOf == [paper |-> "paper_id", author |-> "author_id",
          institution |-> "institution_id", venue |-> "venue_id",
          release |-> "release_id", topic |-> "topic_id"]

\* the store st holds an entity row whose key is the identifier h
HasRow(st, h) == \E t \in EntityTables : \E r \in st[t] : r[KeyOf[t]] = Blob(h)

IsMerge(l) == l.op \in {"merge_papers", "merge_authors"}

\* the identifiers of a merge set that are not the merge target
NonTarget(l) == Range(l.arg) \ {l.target}

\* the last operation imported, a second time, the batch the operation before
\* it imported and committed: through the same Database object, or through
\* one constructed after that commit
Reimported ==
    /\ last.op = "import_all" /\ prev.op = "import_all"
    /\ last.arg # <<>> /\ last.arg = prev.arg
    /\ prev.err = None
    /\ (last.db = prev.db \/ last.predb.born = nops - 1)

(***************************************************************************)
(* Properties.                                                             *)
(***************************************************************************)
\* C1: import_all is all-or-nothing: when it raises, the store is the store
\* before the call (no row written earlier in the batch remains).
C1_AllOrNothing ==
    (last.op = "import_all" /\ last.err # None) => store = last.pre

\* C2: idempotence of acquire: importing again what the previous import
\* committed (through the same Database object, or through one constructed
\* after that commit), the storage not failing this time, succeeds, returns
\* the identifiers the first import returned and leaves every table as it was.
C2_Idempotent ==
    (Reimported /\ last.err # "StorageError")
        => (last.err = None /\ last.rets = prev.rets /\ store = last.pre)

\* the store that replay over the whole range builds from the empty store
ReplayedStore == replay(EmptyStore, Database(EmptyStore, 0), log, <<>>, <<>>, 0).store

\* C3: replay equivalence: the store built by import_all calls alone, from the
\* empty store, equals the store replay builds from the empty store over the
\* whole History Log those calls wrote.
C3_ReplayEquivalence ==
    kinds \subseteq {"import_all"} => store = ReplayedStore

\* the rows of table t whose column `field` holds one of the identifiers ids
Referencing(st, t, field, ids) == {r \in st[t] : \E h \in ids : r[field] = Blob(h)}

\* C4: merge correctness for papers: after merge_papers on a set holding a
\* canonical identifier b, the paper rows of the other identifiers are gone
\* and no row of a paper edge table references one of them.
C4_MergePapers ==
    (last.op = "merge_papers" /\ last.target \in Range(last.arg)) =>
        /\ Referencing(store, "paper", "paper_id", NonTarget(last)) = {}
        /\ \A i \in 1..Len(PaperTables) :
               Referencing(store, PaperTables[i], "paper_id", NonTarget(last)) = {}

\* C5: a merge set holding more than one distinct canonical identifier is
\* rejected: the merge fails and changes nothing.
C5_AmbiguousRejected ==
    (IsMerge(last) /\ Cardinality({h \in Range(last.arg) : is_canonical_uuid(h)}) > 1) =>
        (last.err # None /\ store = last.pre)

\* C6: merge_authors on x, y, neither canonical: a fresh canonical z is
\* minted, the author table holds a row keyed by z (the value the rewritten
\* edges reference) with x's name, and the rows x and y are deleted.
C6_MergeTwoAuthors ==
    (/\ last.op = "merge_authors" /\ Len(last.arg) = 2
     /\ \A h \in Range(last.arg) : ~is_canonical_uuid(h) /\ HasRow(last.pre, h)) =>
        LET x == last.arg[1]
            y == last.arg[2]
            z == last.target
        IN /\ is_canonical_uuid(z) /\ z \notin {x, y}
           /\ \E r \in store.author :
                  /\ r.author_id = Blob(z)
                  /\ \E q \in last.pre.author : q.author_id = Blob(x) /\ r.name = q.name
           /\ Referencing(store, "author", "author_id", {x, y}) = {}

\* the edge tables that have an author foreign key
AuthorEdgeTables == {"paper_author", "paper_author_institution", "author_link",
                     "author_alias", "author_institution"}

\* C7: after merge_authors no row of an edge table with an author foreign key
\* references a non-target identifier of the merge set.
C7_AuthorEdgesRewritten ==
    last.op = "merge_authors" =>
        \A t \in AuthorEdgeTables :
            Referencing(store, t, "author_id", NonTarget(last)) = {}

\* the entities acquire reaches from x: x and its sub-entities at any depth
RECURSIVE Parts(_)
Parts(x) ==
    {x} \cup
    (CASE x.kind = "Paper" ->
              UNION ({Parts(x.authors[i].author) : i \in 1..Len(x.authors)}
                     \cup {UNION {Parts(x.authors[i].affiliations[j]) :
                                      j \in 1..Len(x.authors[i].affiliations)} :
                              i \in 1..Len(x.authors)}
                     \cup {Parts(x.releases[i]) : i \in 1..Len(x.releases)}
                     \cup {Parts(x.topics[i]) : i \in 1..Len(x.topics)})
       [] x.kind = "Author" ->
              UNION {Parts(x.roles[i].institution) : i \in 1..Len(x.roles)}
       [] x.kind = "Release" -> Parts(x.venue)
       [] OTHER -> {})

PartsOf(xs) == UNION {Parts(xs[i]) : i \in 1..Len(xs)}

\* the entities of the last import whose content hashes to an identifier that
\* a merge folded away and that had no row when the import began
FoldedParts ==
    {x \in PartsOf(last.arg) :
        hashid(x) \in DOMAIN folded /\ ~HasRow(last.pre, hashid(x))}

Known(h) == h \in DOMAIN last.predb.cache \/ h \in DOMAIN last.predb.canonical

C9_CanonicalStability ==
    (last.op = "import_all" /\ last.err = None) =>
        \A i \in 1..Len(last.arg) :
            LET h == hashid(last.arg[i])
            IN h \in DOMAIN folded =>
                   LET z == folded[h]
                       mapped == /\ h \in DOMAIN last.predb.canonical
                                 /\ last.predb.canonical[h] = z
                   IN /\ last.rets[i] = z => mapped
                      /\ ~mapped => last.rets[i] = h

\* an author folded into a minted canonical identifier, to which edges now
\* point, is imported again through the object that acquired it first
C9_Witness ==
    /\ last.op = "import_all" /\ last.err = None
    /\ \E i \in 1..Len(last.arg) :
           LET h == hashid(last.arg[i])
           IN /\ h \in DOMAIN folded
              /\ h \in DOMAIN last.predb.cache
              /\ last.rets[i] = h
              /\ Referencing(store, "paper_author", "author_id", {folded[h]}) # {}

\* the store a first, successful import of xs into the empty store produces
Imported(xs) ==
    Exit(EmptyStore, AcquireAll(Enter(EmptyStore, Database(EmptyStore, 0), 0), xs, 1)).store

\* C10: an import that failed on a storage failure can be retried: the retry
\* through the same Database object ends with every entity row and edge row
\* of the batch in the store.
C10_RetrySafe ==
    (/\ last.op = "import_all" /\ prev.op = "import_all"
     /\ prev.err = "StorageError" /\ last.err = None
     /\ last.db = prev.db /\ last.arg = prev.arg) =>
        \A t \in Tables \ {"canonical_id"} : Imported(last.arg)[t] \subseteq store[t]

\* C11: History Log ordering: the log changes only in an import_all whose
\* transaction committed, by one record per submitted entity appended to one
\* file in submission order; an import_all that failed leaves the log as it
\* was.
C11_LogAfterCommit ==
    [][log' # log =>
          /\ last'.op = "import_all" /\ last'.err = None
          /\ \E f \in HistoryFiles :
                /\ log' = [log EXCEPT ![f] = @ \o Lines(last'.arg, 1)]
                /\ Records(SubSeq(log'[f], Len(log[f]) + 1, Len(log'[f])), 1) = last'.arg]_vars

\* a batch of two entities was committed and logged after an import that
\* failed left no record
C11_Witness ==
    /\ last.op = "import_all" /\ last.err = None
    /\ prev.op = "import_all" /\ prev.err # None
    /\ Len(last.arg) = 2
    /\ log[ConfigHistoryFile] = Lines(last.arg, 1)

\* the records a replay had acquired when it stopped have their rows in the
\* store the replay r left
RecordsKept(r) ==
    (r.err = "StorageError" /\ r.rets # <<>>)
        => \A i \in 1..Len(r.rets) : HasRow(r.store, r.rets[i])

\* C12: replay commits record by record: when a replay of the History Log
\* into an empty store stops at record k of a file on a storage failure, the
\* rows of records 1..k-1 of that file are committed.
C12_RecordByRecord ==
    \A w \in 1..MaxFault :
        RecordsKept(replay(EmptyStore, Database(EmptyStore, 0), log, <<>>, <<>>, w))

\* the files of the History Log directory
LogFiles == {f \in HistoryFiles : log[f] # <<>>}

\* the files of the half-open range [after, before), names compared on the
\* prefix of the bound's length; an empty bound is no bound
InRange(f, before, after) ==
    /\ after = <<>> \/ ~StrLess(Prefix(f, Len(after)), after)
    /\ before = <<>> \/ StrLess(Prefix(f, Len(before)), before)

\* C13: the replay range filter is [after, before): replay processes exactly
\* the files whose name is >= after and < before, every file when no bound is
\* given.
C13_HalfOpenRange ==
    \A before \in RangeBounds, after \in RangeBounds :
        Range(_accumulate_history_files(LogFiles, before, after))
            = {f \in LogFiles : InRange(f, before, after)}

\* the identifiers of the sub-entities of x, at any depth
SubIds(x) == {hashid(y) : y \in Parts(x) \ {x}}

\* C14: sub-entities before the parent row: in the transaction of an
\* import_all, no sub-entity of an entity is acquired after the entity's own
\* row was written.
C14_SubEntitiesFirst ==
    last.op = "import_all" =>
        \A i, j \in 1..Len(last.trace) :
            (i < j /\ last.trace[i].ev = "row" /\ last.trace[j].ev = "acquired")
                => \A x \in PartsOf(last.arg) :
                       Blob(hashid(x)) = last.trace[i].id
                           => last.trace[j].id \notin SubIds(x)

\* the identifiers the canonical-map snapshot of db maps to a value
Superseded(db) == {h \in DOMAIN db.canonical : db.canonical[h] # NoId}

\* the identifiers a row holds in its key and reference columns
RowIds(r) ==
    {r[f] : f \in DOMAIN r \cap {"paper_id", "author_id", "institution_id",
                                 "venue_id", "release_id", "topic_id", "hashid"}}

\* the papers of the last import that were fully upserted
UpsertedPapers ==
    {x \in Range(last.arg) :
        /\ x.kind = "Paper"
        /\ \E k \in 1..Len(last.trace) :
              last.trace[k] = RowWritten("paper", Blob(hashid(x)))}

\* C15: superseded content resolves to its canonical identifier: when the
\* snapshot holds h -> c with c non-null, acquire of content hashing to h
\* returns c, writes no row that mentions h, adds no cache entry, and a
\* paper acquired with such an author has its paper_author edge under c.
C15_Superseded ==
    last.op = "import_all" =>
        \A h \in Superseded(last.predb) :
            /\ \A i \in 1..Len(last.rets) :
                  hashid(last.arg[i]) = h => last.rets[i] = last.predb.canonical[h]
            /\ \A k \in 1..Len(last.trace) : last.trace[k].id # h
            /\ \A t \in Tables : \A r \in store[t] \ last.pre[t] : h \notin RowIds(r)
            /\ h \notin DOMAIN dbs[last.db].cache
            /\ last.err = None =>
                  \A x \in UpsertedPapers : \A i \in 1..Len(x.authors) :
                      hashid(x.authors[i].author) = h =>
                          [paper_id |-> Blob(hashid(x)),
                           author_id |-> last.predb.canonical[h],
                           author_position |-> i - 1] \in store.paper_author

\* a paper whose second author is superseded was imported and committed
C15_Witness ==
    /\ last.op = "import_all" /\ last.err = None
    /\ hashid(A1) \in Superseded(last.predb)
    /\ P2 \in UpsertedPapers
    /\ [paper_id |-> Blob(hashid(P2)), author_id |-> hashid(AC),
        author_position |-> 1] \in store.paper_author

\* the entities of the batches, at any depth
Universe == UNION {PartsOf(xs) : xs \in Batches}

\* the entities with a transient identifier that Database object d holds in
\* its acquisition cache
CachedEntities(d) ==
    {x \in Universe : /\ get_uuid_tag(hashid(x)) = "transient"
                      /\ hashid(x) \in DOMAIN dbs[d].cache}

\* acquire of x in the session s returned id and changed nothing else
OnlyReturns(s, x, id) == acquire(s, x) = [s EXCEPT !.ret = id]

\* C16: a cache hit writes nothing: acquire of an entity whose transient
\* identifier is in the cache of the Database object returns the cached
\* identifier and leaves the store, the pending writes, the cache and the
\* canonical map as they were, without acquiring any sub-entity; an import
\* of cached entities only leaves the store and the cache unchanged.
C16_CacheHit ==
    /\ \A d \in DbIds : dbs[d].open =>
          \A x \in CachedEntities(d) :
              OnlyReturns(Enter(store, dbs[d], 0), x, dbs[d].cache[hashid(x)])
    /\ (/\ last.op = "import_all"
        /\ \A i \in 1..Len(last.arg) :
              /\ get_uuid_tag(hashid(last.arg[i])) = "transient"
              /\ hashid(last.arg[i]) \in DOMAIN last.predb.cache)
          => /\ last.err = None /\ last.trace = <<>> /\ store = last.pre
             /\ dbs[last.db].born = last.predb.born
                   => dbs[last.db].cache = last.predb.cache
             /\ \A i \in 1..Len(last.arg) :
                   last.rets[i] = last.predb.cache[hashid(last.arg[i])]

\* the paper the previous import absorbed was imported again through the
\* same Database object
C16_Witness ==
    /\ last.op = "import_all" /\ prev.op = "import_all"
    /\ last.arg = <<P1>> /\ prev.arg = <<P1>> /\ last.db = prev.db
    /\ hashid(P1) \in DOMAIN last.predb.cache
    /\ HasRow(store, hashid(P1))
    /\ last.rets = <<hashid(P1)>>

\* the row of its table that acquire writes for a paper or an author
ScalarRow(x) ==
    IF x.kind = "Paper"
    THEN [paper_id |-> Blob(hashid(x)), title |-> x.title, abstract |-> x.abstract,
          citation_count |-> x.citation_count]
    ELSE [author_id |-> Blob(hashid(x)), name |-> x.name]

TableOf(x) == IF x.kind = "Paper" THEN "paper" ELSE "author"

\* the indices of the last batch that hold an entity with a canonical
\* identifier
CanonicalAt == {i \in 1..Len(last.arg) : is_canonical_uuid(hashid(last.arg[i]))}

\* the last index of the batch that holds the identifier of arg[i]
LastVersion(i) ==
    CHOOSE j \in CanonicalAt :
        /\ hashid(last.arg[j]) = hashid(last.arg[i])
        /\ \A k \in CanonicalAt : hashid(last.arg[k]) = hashid(last.arg[i]) => k <= j

\* C17: canonical entities are always re-absorbed: a committed import writes
\* the row of an entity with a canonical identifier once per occurrence in
\* the batch, in the cache or not; the stored row is then the one of the
\* version acquired last and the links of that version are stored; no
\* canonical_id row is ever written for a canonical identifier.
C17_Reabsorbed ==
    /\ \A r \in store.canonical_id : ~is_canonical_uuid(r.hashid)
    /\ (last.op = "import_all" /\ last.err = None) =>
          \A i \in CanonicalAt :
              /\ Cardinality({k \in 1..Len(last.trace) : last.trace[k] =
                     RowWritten(TableOf(last.arg[i]), Blob(hashid(last.arg[i])))})
                   = Cardinality({j \in CanonicalAt :
                                     hashid(last.arg[j]) = hashid(last.arg[i])})
              /\ {r \in store[TableOf(last.arg[i])] :
                     r[KeyOf[TableOf(last.arg[i])]] = Blob(hashid(last.arg[i]))}
                   = {ScalarRow(last.arg[LastVersion(i)])}
              /\ \A n \in 1..Len(last.arg[LastVersion(i)].links) :
                     \E r \in store[TableOf(last.arg[i]) \o "_link"] :
                         /\ r[KeyOf[TableOf(last.arg[i])]] = Blob(hashid(last.arg[i]))
                         /\ r.link = last.arg[LastVersion(i)].links[n].link

\* a batch holding two versions of a canonical author was committed through
\* a Database object that had the identifier in its cache
C17_Witness ==
    /\ last.op = "import_all" /\ last.err = None
    /\ last.arg = <<A1, AC, AC2>>
    /\ hashid(AC) \in DOMAIN last.predb.cache
    /\ [author_id |-> Blob(hashid(AC)), name |-> AC2.name] \in store.author

\* the canonical_id rows of identifier h
MapRows(h) == {r \in store.canonical_id : r.hashid = h}

\* the transient identifiers that have an entity row
RowIdsTransient ==
    UNION {{r[KeyOf[t]] : r \in store[t]} : t \in EntityTables}
        \cap {hashid(x) : x \in {y \in Universe : ~is_canonical_uuid(hashid(y))}}

\* C18: canonical-map bookkeeping: every transient identifier that has an
\* entity row, and every transient identifier the last committed call fully
\* upserted, has exactly one canonical_id row, with a null canonical value.
C18_Bookkeeping ==
    /\ \A h \in RowIdsTransient : MapRows(h) = {[hashid |-> h, canonical |-> NoId]}
    /\ (last.op = "import_all" /\ last.err = None) =>
          \A k \in 1..Len(last.trace) :
              (last.trace[k].ev = "acquired" /\ ~is_canonical_uuid(last.trace[k].id))
                  => MapRows(last.trace[k].id)
                         = {[hashid |-> last.trace[k].id, canonical |-> NoId]}

\* C19: merge leaves the canonical map untouched: a step that runs
\* merge_papers or merge_authors adds, changes and deletes no canonical_id
\* row and leaves the snapshot and the cache of every Database object as
\* they were.
C19_MergeKeepsMap ==
    [][(nops' = nops + 1 /\ IsMerge(last'))
          => (store'.canonical_id = store.canonical_id /\ dbs' = dbs)]_vars

\* a merge deleted the row of a transient identifier that keeps its
\* canonical_id row
C19_Witness ==
    /\ IsMerge(last)
    /\ \E h \in DOMAIN folded :
          /\ folded[h] = last.target
          /\ HasRow(last.pre, h) /\ ~HasRow(store, h)
          /\ MapRows(h) = {[hashid |-> h, canonical |-> NoId]}
          /\ h \in DOMAIN dbs[last.db].cache

\* the paper_author edges of paper x
AuthorEdges(x) == {r \in store.paper_author : r.paper_id = Blob(hashid(x))}

\* C20: author position is preserved: after a committed import, a paper
\* that was upserted with n authors has n paper_author edges, the one of
\* position i (counted from 0) holding the identifier of the author at list
\* index i.
C20_AuthorPosition ==
    (last.op = "import_all" /\ last.err = None) =>
        \A x \in UpsertedPapers :
            /\ Cardinality(AuthorEdges(x)) = Len(x.authors)
            /\ \A i \in 1..Len(x.authors) :
                  [paper_id |-> Blob(hashid(x)),
                   author_id |-> Blob(hashid(x.authors[i].author)),
                   author_position |-> i - 1] \in AuthorEdges(x)

\* C21: the transient-tag assertion of acquire never fails: every key of
\* the canonical_id table and of the snapshot of every Database object is a
\* transient identifier, and no operation ended on the assertion.
C21_TransientKeys ==
    /\ \A r \in store.canonical_id : get_uuid_tag(r.hashid) = "transient"
    /\ \A d \in DbIds : \A h \in DOMAIN dbs[d].canonical :
          get_uuid_tag(h) = "transient"
    /\ last.err # "AssertionError"

\* entities with a canonical identifier were acquired and committed through
\* a Database object whose snapshot is not empty
C21_Witness ==
    /\ last.op = "import_all" /\ last.err = None
    /\ last.arg = <<A1, AC, AD>>
    /\ DOMAIN last.predb.canonical # {}
    /\ HasRow(store, hashid(AC)) /\ HasRow(store, hashid(AD))
    /\ store.canonical_id # {}

\* C22: no duplicate canonical_id insert: no import_all or replay, through
\* any Database object constructed on the store, fails on the primary key of
\* canonical_id.
C22_NoDuplicateInsert ==
    last.op \in {"import_all", "replay"} => last.err # "IntegrityError"

\* the rows of any table but canonical_id whose column KeyOf[e] holds an
\* identifier that is the key of no row of entity table e
Dangling(st, e) ==
    UNION {{r \in st[t] : /\ KeyOf[e] \in DOMAIN r
                          /\ ~\E q \in st[e] : q[KeyOf[e]] = r[KeyOf[e]]}
              : t \in Tables \ {"canonical_id"}}

\* C23: referential integrity: every identifier in a foreign-key column of
\* an edge row, and release.venue_id, is the key of a row of the entity
\* table it refers to, and every identifier a committed import returned is
\* the key of an entity row.
C23_ReferentialIntegrity ==
    /\ \A e \in EntityTables : Dangling(store, e) = {}
    /\ (last.op = "import_all" /\ last.err = None) =>
          \A i \in 1..Len(last.rets) : HasRow(store, last.rets[i])

====
